---------------------------- MODULE Spec2Model ----------------------------
(***************************************************************************)
(* Golf swing analysis service (ai-microservice/services/golf_analyzer.py) *)
(* GolfSwingAnalyzer.analyze_swing as a state machine: pose extraction,    *)
(* phase segmentation, metric extraction, scoring, recommendations and     *)
(* the returned SwingAnalysisData; the upload and URL endpoints of         *)
(* main.py around it; and the app service (app/main.py with                *)
(* app/services/golf_analyzer.py): startup, /analyze, /analyze/batch and   *)
(* /models/status.                                                         *)
(*                                                                         *)
(* Numbers that are floats in the source are fixed-point integers here:    *)
(* a float f is the integer f * Scale (45.0 is 4500, 2.8 is 280).  Every   *)
(* float the code produces is a multiple of 1/100 except the overall       *)
(* score, a multiple of 1/4 of such values, which stays exact too          *)
(* because category scores are multiples of 5.                             *)
(***************************************************************************)
EXTENDS Integers, Sequences, FiniteSets, TLC

VARIABLES
    pc,                 \* position of the request inside analyze_swing
    models,             \* self.form_model .. self.accuracy_model: loaded or not
    model_predictions,  \* what each loaded model predicts for the metric set
    video_info,         \* _get_video_info(video_path)
    landmarks,          \* pose_data["landmarks"]: per pose frame, the wrist position
    visibility,         \* pose_data["landmarks"]: per pose frame, each landmark's visibility
    frame_timestamps,   \* pose_data["frame_timestamps"]
    confidence_scores,  \* pose_data["confidence_scores"]
    swing_phases,       \* result of _analyze_swing_phases
    metrics,            \* result of _calculate_swing_metrics
    scores,             \* result of _generate_scores
    recommendations,    \* result of _generate_recommendations
    analysis_data,      \* the SwingAnalysisData analyze_swing returns
    error,              \* message of the exception analyze_swing raised, "" if none
    now,                \* wall clock, time.time()
    first_scores,       \* history: scores an earlier invocation returned for these metrics
    endpoint,           \* main.py: the endpoint serving the request, "none" outside HTTP
    content_type,       \* video_file.content_type of the upload
    file_size,          \* video_file.size of the upload in bytes, 0 when unknown
    temp_files,         \* temporary files that exist on disk
    temp_created,       \* history: a temporary file was created for the request
    analyzer_invoked,   \* history: analyzer.analyze_swing was called for the request
    http_status,        \* status of the HTTP answer, 0 before there is one
    initialized,        \* app service: GolfSwingAnalyzer.initialized
    components_ready,   \* app service: components whose initialize() completed
    startup,            \* app service: outcome of initialize()
    app_pc,             \* app service: position of the request in its endpoint
    api_key_valid,      \* app service: verify_api_key(credentials) of the request
    batch_requests,     \* app service: the requests of the batch
    results,            \* app service: the results list of analyze_batch
    analyzer_calls,     \* app service, history: the calls of analyzer methods, in call order
    steps_run,          \* app service, history: analysis steps run, each with self.initialized at that time
    app_response,       \* app service: the HTTP answer of the endpoint
    app_endpoint,       \* app service: the endpoint serving the request, "none" before one arrives
    request,            \* app service: the AnalysisRequest of /analyze and what the components do with its video
    tempo_analysis,     \* app service: tempo_analysis passed to _calculate_overall_score
    form_analysis,      \* app service: form_analysis passed to _calculate_overall_score
    overall_score       \* app service: what _calculate_overall_score returned

\* state of the upload and URL endpoints of main.py
serviceVars == <<endpoint, content_type, file_size, temp_files, temp_created,
                 analyzer_invoked, http_status>>

\* state of the app service (app/main.py, app/services/golf_analyzer.py)
appVars == <<initialized, components_ready, startup, app_pc, api_key_valid,
             batch_requests, results, analyzer_calls, steps_run, app_response,
             app_endpoint, request, tempo_analysis, form_analysis,
             overall_score>>

\* state of GolfSwingAnalyzer.analyze_swing (services/golf_analyzer.py)
coreVars == <<pc, models, model_predictions, video_info, landmarks, visibility,
              frame_timestamps, confidence_scores, swing_phases, metrics,
              scores, recommendations, analysis_data, error, now, first_scores>>

vars == <<pc, models, model_predictions, video_info, landmarks, visibility,
          frame_timestamps, confidence_scores, swing_phases, metrics, scores, recommendations, analysis_data, error,
          now, first_scores, serviceVars, appVars>>

(***************************************************************************)
(* Bounds of the model.                                                    *)
(***************************************************************************)
MaxFrames == 12     \* longest pose sequence a request carries
MaxDropped == 1     \* video frames in which no pose was detected
VideoFps == 25      \* cv2.CAP_PROP_FPS of the analysed video
MaxStart == 1       \* largest start of an arbitrary phase range
MaxStop == 2        \* largest stop of an arbitrary phase range
MaxClock == 1       \* ticks of the wall clock between invocations
NumLandmarks == 2   \* landmarks of a pose frame; landmark 0 is the first
MaxVisFrames == 3   \* longest pose sequence with arbitrary visibilities

Scale == 100

Min(a, b) == IF a <= b THEN a ELSE b
Max(a, b) == IF a >= b THEN a ELSE b

(***************************************************************************)
(* Python range(start, stop) and len() of it.                              *)
(***************************************************************************)
Range(a, b) == [start |-> a, stop |-> b]
RangeLen(r) == IF r.stop > r.start THEN r.stop - r.start ELSE 0

PhaseNames == {"address", "backswing", "downswing", "impact", "follow_through"}

(***************************************************************************)
(* Values a field holds before the step that computes it has run.          *)
(***************************************************************************)
NoVideoInfo == [frame_count |-> -1, fps |-> -1, duration |-> -1]
NoPhases == [p \in PhaseNames |-> Range(-1, -1)]
NoMetrics ==
    [backswing_angle |-> -1, downswing_speed |-> -1, follow_through |-> -1,
     hip_rotation |-> -1, shoulder_alignment |-> -1, weight_transfer |-> -1,
     tempo_ratio |-> -1]
NoScores ==
    [form_score |-> -1, tempo_score |-> -1, power_score |-> -1,
     accuracy_score |-> -1, overall_score |-> -1]
NoRecommendations ==
    [strengths |-> <<>>, areas_for_improvement |-> <<>>,
     specific_recommendations |-> <<>>, practice_drills |-> <<>>,
     priority_level |-> ""]
NoAnalysisData ==
    [scores |-> NoScores, metrics |-> NoMetrics,
     recommendations |-> NoRecommendations, confidence_score |-> -1,
     frame_count |-> -1, video_duration |-> -1, pose_landmarks |-> <<>>,
     model_version |-> ""]

\* status: the HTTP status; cause: str(e) of the exception the except clause
\* of the endpoint caught, "" if none; body: the value returned
NoResponse == [status |-> 0, cause |-> "", body |-> <<>>]

\* an Optional[TempoAnalysis] / Optional[FormAnalysis] that is None
NoAnalysis == [score |-> -1]

NoRequest ==
    [analysisType |-> "", outcome |-> [fail_step |-> "none", how |-> "ok"],
     tempo_score |-> -1, form_score |-> -1]

\* the analyzer is used directly, no HTTP request of main.py is in progress
ServiceIdle ==
    /\ endpoint = "none"
    /\ content_type = ""
    /\ file_size = 0
    /\ temp_files = {}
    /\ temp_created = FALSE
    /\ analyzer_invoked = FALSE
    /\ http_status = 0

\* the app service right after analyzer = GolfSwingAnalyzer(), no request yet
AppIdle ==
    /\ initialized = FALSE
    /\ components_ready = {}
    /\ startup = "pending"
    /\ app_pc = "idle"
    /\ api_key_valid = FALSE
    /\ batch_requests = <<>>
    /\ results = <<>>
    /\ analyzer_calls = <<>>
    /\ steps_run = {}
    /\ app_response = NoResponse
    /\ app_endpoint = "none"
    /\ request = NoRequest
    /\ tempo_analysis = NoAnalysis
    /\ form_analysis = NoAnalysis
    /\ overall_score = NoAnalysis.score

(***************************************************************************)
(* __init__ / _load_models: each of the four models is loaded or not.      *)
(***************************************************************************)
ModelSets ==
    [form_model : BOOLEAN, tempo_model : BOOLEAN,
     power_model : BOOLEAN, accuracy_model : BOOLEAN]

\* The value each loaded model returns for the metric set of the request; a
\* model that is not loaded predicts nothing (-1).
PredictionValues == {40 * Scale, 95 * Scale}

ModelPredictions(mdl) ==
    [form_model     : IF mdl.form_model THEN PredictionValues ELSE {-1},
     tempo_model    : IF mdl.tempo_model THEN PredictionValues ELSE {-1},
     power_model    : IF mdl.power_model THEN PredictionValues ELSE {-1},
     accuracy_model : IF mdl.accuracy_model THEN PredictionValues ELSE {-1}]

(***************************************************************************)
(* The wrist-speed signal of a sequence: frame i (counted from 0) has the  *)
(* speed |position(i) - position(i-1)| per frame interval, frame 0 has     *)
(* none.  The middle 60% are the frames i with N/5 <= i < 4N/5.            *)
(***************************************************************************)
WristSpeed(lm, i) ==
    IF i = 0 THEN 0
    ELSE IF lm[i + 1] >= lm[i] THEN lm[i + 1] - lm[i] ELSE lm[i] - lm[i + 1]

MiddleFrames(lm) ==
    {i \in 0..(Len(lm) - 1) : 5 * i >= Len(lm) /\ 5 * i < 4 * Len(lm)}

Degenerate(lm) ==
    \A i, j \in MiddleFrames(lm) : WristSpeed(lm, i) = WristSpeed(lm, j)

\* frame of maximum speed in the middle 60%, earliest index on ties
PeakFrame(lm) ==
    CHOOSE i \in MiddleFrames(lm) :
        /\ \A j \in MiddleFrames(lm) : WristSpeed(lm, j) <= WristSpeed(lm, i)
        /\ \A j \in MiddleFrames(lm) :
              WristSpeed(lm, j) = WristSpeed(lm, i) => i <= j

(***************************************************************************)
(* _analyze_swing_phases                                                   *)
(***************************************************************************)
\* faulty variant: the guard off by one
InsufficientFrames_OffByOne(lm) == Len(lm) < 9

InsufficientFrames(lm) == Len(lm) < 10

\* faulty variant: 3 * (len // 4) where 3 * len // 4 is meant
_analyze_swing_phases_precedence(lm) ==
    LET n == Len(lm) IN
    [address        |-> Range(0, n \div 4),
     backswing      |-> Range(n \div 4, n \div 2),
     downswing      |-> Range(n \div 2, (3 * n) \div 4),
     impact         |-> Range(3 * (n \div 4), (4 * n) \div 5),
     follow_through |-> Range((4 * n) \div 5, n)]

\* faulty variant: the downswing ends and the impact begins at the wrist-speed peak
_analyze_swing_phases_peak(lm) ==
    LET n == Len(lm)
        i == IF Degenerate(lm) THEN (3 * n) \div 4 ELSE PeakFrame(lm)
    IN
    [address        |-> Range(0, n \div 4),
     backswing      |-> Range(n \div 4, n \div 2),
     downswing      |-> Range(n \div 2, i),
     impact         |-> Range(i, (4 * n) \div 5),
     follow_through |-> Range((4 * n) \div 5, n)]

_analyze_swing_phases(lm) ==
    LET n == Len(lm) IN
    [address        |-> Range(0, n \div 4),
     backswing      |-> Range(n \div 4, n \div 2),
     downswing      |-> Range(n \div 2, (3 * n) \div 4),
     impact         |-> Range((3 * n) \div 4, (4 * n) \div 5),
     follow_through |-> Range((4 * n) \div 5, n)]


(***************************************************************************)
(* Metric helpers of _calculate_swing_metrics.  Each returns a clamped     *)
(* float; the values computed are the constants the source assigns.        *)
(***************************************************************************)
_calculate_backswing_angle(lm, backswing_range) ==
    IF RangeLen(backswing_range) < 2
    THEN 0
    ELSE LET angle == 45 * Scale IN Max(0, Min(180 * Scale, angle))

\* landmarks[backswing_range.start] and landmarks[backswing_range.stop - 1]
\* are read once the range holds two indices: an index past the list raises
\* IndexError.
BackswingIndexError(lm, backswing_range) ==
    /\ RangeLen(backswing_range) >= 2
    /\ \/ backswing_range.start >= Len(lm)
       \/ backswing_range.stop - 1 >= Len(lm)

\* faulty variant: the speed measured from the wrist positions of the range
_calculate_downswing_speed_wrist(lm, downswing_range) ==
    IF RangeLen(downswing_range) < 2
    THEN 0
    ELSE LET speed == 15 * Scale *
                      WristSpeed(lm, downswing_range.start + 1)
         IN  Max(0, speed)

_calculate_downswing_speed(lm, downswing_range) ==
    IF RangeLen(downswing_range) < 2
    THEN 0
    ELSE LET speed == 15 * Scale IN Max(0, speed)

_calculate_follow_through(lm, follow_through_range) ==
    IF RangeLen(follow_through_range) < 2
    THEN 0
    ELSE LET angle == 60 * Scale IN Max(0, Min(180 * Scale, angle))

\* faulty variant: no value (-1) when the landmarks of the request are at
\* or below the 0.3 visibility threshold
_calculate_hip_rotation_visible(lm, downswing_range) ==
    IF \E i \in 1..Len(visibility) : \E k \in 1..Len(visibility[i]) :
          visibility[i][k] <= 30
    THEN -1
    ELSE IF RangeLen(downswing_range) < 2
         THEN 0
         ELSE LET angle == 75 * Scale IN Max(0, Min(180 * Scale, angle))

_calculate_hip_rotation(lm, downswing_range) ==
    IF RangeLen(downswing_range) < 2
    THEN 0
    ELSE LET angle == 75 * Scale IN Max(0, Min(180 * Scale, angle))

_calculate_shoulder_alignment(lm, address_range) ==
    IF RangeLen(address_range) < 1
    THEN 0
    ELSE LET alignment == 68 * Scale IN Max(0, Min(100 * Scale, alignment))

_calculate_weight_transfer(lm, phases) ==
    LET efficiency == 75 * Scale IN Max(0, Min(100 * Scale, efficiency))

\* faulty variant: the short-input default of the other helpers, 0.0
_calculate_tempo_ratio_zero(timestamps, phases) ==
    IF Len(timestamps) < 2
    THEN 0
    ELSE LET ratio == 280 IN Max(50, Min(5 * Scale, ratio))

_calculate_tempo_ratio(timestamps, phases) ==
    IF Len(timestamps) < 2
    THEN 1 * Scale
    ELSE LET ratio == 280 IN Max(50, Min(5 * Scale, ratio))

_calculate_swing_metrics(lm, timestamps, phases) ==
    [backswing_angle    |-> _calculate_backswing_angle(lm, phases.backswing),
     downswing_speed    |-> _calculate_downswing_speed(lm, phases.downswing),
     follow_through     |-> _calculate_follow_through(lm, phases.follow_through),
     hip_rotation       |-> _calculate_hip_rotation(lm, phases.downswing),
     shoulder_alignment |-> _calculate_shoulder_alignment(lm, phases.address),
     weight_transfer    |-> _calculate_weight_transfer(lm, phases),
     tempo_ratio        |-> _calculate_tempo_ratio(timestamps, phases)]

(***************************************************************************)
(* Scoring: rule tables, the model predictors, _generate_scores.           *)
(***************************************************************************)
\* faulty variant: >= where > is meant
_rule_based_form_score_ge(m) ==
    LET s0 == 70 * Scale
        s1 == IF m.shoulder_alignment >= 80 * Scale THEN s0 + 10 * Scale ELSE s0
        s2 == IF m.hip_rotation >= 70 * Scale THEN s1 + 10 * Scale ELSE s1
        s3 == IF m.weight_transfer >= 80 * Scale THEN s2 + 10 * Scale ELSE s2
    IN  Min(100 * Scale, s3)

_rule_based_form_score(m) ==
    LET s0 == 70 * Scale
        s1 == IF m.shoulder_alignment > 80 * Scale THEN s0 + 10 * Scale ELSE s0
        s2 == IF m.hip_rotation > 70 * Scale THEN s1 + 10 * Scale ELSE s1
        s3 == IF m.weight_transfer > 80 * Scale THEN s2 + 10 * Scale ELSE s2
    IN  Min(100 * Scale, s3)

\* faulty variant: the second interval half-open, tempo_ratio < 4.0
_rule_based_tempo_score_halfopen(m) ==
    LET s0 == 70 * Scale
        s1 == IF 250 <= m.tempo_ratio /\ m.tempo_ratio <= 350
              THEN s0 + 20 * Scale
              ELSE IF 2 * Scale <= m.tempo_ratio /\ m.tempo_ratio < 4 * Scale
                   THEN s0 + 10 * Scale
                   ELSE s0
    IN  Min(100 * Scale, s1)

_rule_based_tempo_score(m) ==
    LET s0 == 70 * Scale
        s1 == IF 250 <= m.tempo_ratio /\ m.tempo_ratio <= 350
              THEN s0 + 20 * Scale
              ELSE IF 2 * Scale <= m.tempo_ratio /\ m.tempo_ratio <= 4 * Scale
                   THEN s0 + 10 * Scale
                   ELSE s0
    IN  Min(100 * Scale, s1)

_rule_based_power_score(m) ==
    LET s0 == 70 * Scale
        s1 == IF m.downswing_speed > 20 * Scale THEN s0 + 15 * Scale ELSE s0
        s2 == IF m.hip_rotation > 80 * Scale THEN s1 + 15 * Scale ELSE s1
    IN  Min(100 * Scale, s2)

_rule_based_accuracy_score(m) ==
    LET s0 == 70 * Scale
        s1 == IF m.shoulder_alignment > 85 * Scale THEN s0 + 15 * Scale ELSE s0
        s2 == IF m.weight_transfer > 85 * Scale THEN s1 + 15 * Scale ELSE s1
    IN  Min(100 * Scale, s2)

\* faulty variant: a prediction that drifts with the wall clock
_predict_form_score_clock(m) ==
    Min(100 * Scale, _rule_based_form_score(m) + now * Scale)

_predict_form_score(m) == _rule_based_form_score(m)
_predict_tempo_score(m) == _rule_based_tempo_score(m)
_predict_power_score(m) == _rule_based_power_score(m)
_predict_accuracy_score(m) == _rule_based_accuracy_score(m)

\* faulty variant: the sum divided by a wrong count
OverallScore_div3(form, tempo, power, accuracy) ==
    (form + tempo + power + accuracy) \div 3

\* faulty variant: the two-category blend 0.4 * tempo + 0.6 * form
OverallScore_blend(form, tempo, power, accuracy) ==
    (40 * tempo + 60 * form) \div 100

\* (form + tempo + power + accuracy) / 4 on floats
OverallScore(form, tempo, power, accuracy) ==
    (form + tempo + power + accuracy) \div 4

_generate_scores(mdl, m) ==
    LET form == IF mdl.form_model
                THEN _predict_form_score(m) ELSE _rule_based_form_score(m)
        tempo == IF mdl.tempo_model
                 THEN _predict_tempo_score(m) ELSE _rule_based_tempo_score(m)
        power == IF mdl.power_model
                 THEN _predict_power_score(m) ELSE _rule_based_power_score(m)
        accuracy == IF mdl.accuracy_model
                    THEN _predict_accuracy_score(m)
                    ELSE _rule_based_accuracy_score(m)
    IN  [form_score     |-> form,
         tempo_score    |-> tempo,
         power_score    |-> power,
         accuracy_score |-> accuracy,
         overall_score  |-> OverallScore(form, tempo, power, accuracy)]

(***************************************************************************)
(* _generate_recommendations                                               *)
(***************************************************************************)
AppendIf(cond, seq, item) == IF cond THEN Append(seq, item) ELSE seq

\* faulty variant: a strength from 85 on, >= where > is meant
_generate_recommendations_ge85(sc) ==
    LET st1 == AppendIf(sc.form_score >= 85 * Scale, <<>>,
                        "Excellent form fundamentals")
        st2 == AppendIf(sc.tempo_score >= 85 * Scale, st1, "Good tempo control")
        st3 == AppendIf(sc.power_score >= 85 * Scale, st2,
                        "Strong power generation")
        strengths == AppendIf(sc.accuracy_score >= 85 * Scale, st3,
                              "Consistent accuracy")
        lowF == sc.form_score < 80 * Scale
        lowT == sc.tempo_score < 80 * Scale
        lowP == sc.power_score < 80 * Scale
        lowA == sc.accuracy_score < 80 * Scale
        areas ==
            AppendIf(lowA,
              AppendIf(lowP,
                AppendIf(lowT,
                  AppendIf(lowF, <<>>, "Form consistency"),
                  "Tempo control"),
                "Power generation"),
              "Accuracy and consistency")
        specific ==
            AppendIf(lowA,
              AppendIf(lowP,
                AppendIf(lowT,
                  AppendIf(lowF, <<>>,
                    "Focus on maintaining proper posture throughout swing"),
                  "Work on 3:1 backswing to downswing ratio"),
                "Improve hip rotation and weight transfer"),
              "Focus on shoulder alignment and target awareness")
        drills ==
            AppendIf(lowA,
              AppendIf(lowP,
                AppendIf(lowT,
                  AppendIf(lowF, <<>>, "Mirror work for posture awareness"),
                  "Metronome practice with slow motion swings"),
                "Medicine ball throws for power development"),
              "Alignment stick drills")
        lowest_score == Min(Min(sc.form_score, sc.tempo_score),
                            Min(sc.power_score, sc.accuracy_score))
        priority_level == IF lowest_score < 70 * Scale THEN "high"
                          ELSE IF lowest_score < 80 * Scale THEN "medium"
                          ELSE "low"
    IN  [strengths |-> IF strengths # <<>> THEN strengths
                       ELSE <<"Good overall technique">>,
         areas_for_improvement    |-> areas,
         specific_recommendations |-> specific,
         practice_drills          |-> drills,
         priority_level           |-> priority_level]

\* faulty variant: the tempo branch appends no practice drill
_generate_recommendations_nodrill(sc) ==
    LET st1 == AppendIf(sc.form_score > 85 * Scale, <<>>,
                        "Excellent form fundamentals")
        st2 == AppendIf(sc.tempo_score > 85 * Scale, st1, "Good tempo control")
        st3 == AppendIf(sc.power_score > 85 * Scale, st2,
                        "Strong power generation")
        strengths == AppendIf(sc.accuracy_score > 85 * Scale, st3,
                              "Consistent accuracy")
        lowF == sc.form_score < 80 * Scale
        lowT == sc.tempo_score < 80 * Scale
        lowP == sc.power_score < 80 * Scale
        lowA == sc.accuracy_score < 80 * Scale
        areas ==
            AppendIf(lowA,
              AppendIf(lowP,
                AppendIf(lowT,
                  AppendIf(lowF, <<>>, "Form consistency"),
                  "Tempo control"),
                "Power generation"),
              "Accuracy and consistency")
        specific ==
            AppendIf(lowA,
              AppendIf(lowP,
                AppendIf(lowT,
                  AppendIf(lowF, <<>>,
                    "Focus on maintaining proper posture throughout swing"),
                  "Work on 3:1 backswing to downswing ratio"),
                "Improve hip rotation and weight transfer"),
              "Focus on shoulder alignment and target awareness")
        drills ==
            AppendIf(lowA,
              AppendIf(lowP,
                AppendIf(lowF, <<>>, "Mirror work for posture awareness"),
                "Medicine ball throws for power development"),
              "Alignment stick drills")
        lowest_score == Min(Min(sc.form_score, sc.tempo_score),
                            Min(sc.power_score, sc.accuracy_score))
        priority_level == IF lowest_score < 70 * Scale THEN "high"
                          ELSE IF lowest_score < 80 * Scale THEN "medium"
                          ELSE "low"
    IN  [strengths |-> IF strengths # <<>> THEN strengths
                       ELSE <<"Good overall technique">>,
         areas_for_improvement    |-> areas,
         specific_recommendations |-> specific,
         practice_drills          |-> drills,
         priority_level           |-> priority_level]

\* faulty variant: the strengths returned as collected, empty or not
_generate_recommendations_nofallback(sc) ==
    LET st1 == AppendIf(sc.form_score > 85 * Scale, <<>>,
                        "Excellent form fundamentals")
        st2 == AppendIf(sc.tempo_score > 85 * Scale, st1, "Good tempo control")
        st3 == AppendIf(sc.power_score > 85 * Scale, st2,
                        "Strong power generation")
        strengths == AppendIf(sc.accuracy_score > 85 * Scale, st3,
                              "Consistent accuracy")
        lowF == sc.form_score < 80 * Scale
        lowT == sc.tempo_score < 80 * Scale
        lowP == sc.power_score < 80 * Scale
        lowA == sc.accuracy_score < 80 * Scale
        areas ==
            AppendIf(lowA,
              AppendIf(lowP,
                AppendIf(lowT,
                  AppendIf(lowF, <<>>, "Form consistency"),
                  "Tempo control"),
                "Power generation"),
              "Accuracy and consistency")
        specific ==
            AppendIf(lowA,
              AppendIf(lowP,
                AppendIf(lowT,
                  AppendIf(lowF, <<>>,
                    "Focus on maintaining proper posture throughout swing"),
                  "Work on 3:1 backswing to downswing ratio"),
                "Improve hip rotation and weight transfer"),
              "Focus on shoulder alignment and target awareness")
        drills ==
            AppendIf(lowA,
              AppendIf(lowP,
                AppendIf(lowT,
                  AppendIf(lowF, <<>>, "Mirror work for posture awareness"),
                  "Metronome practice with slow motion swings"),
                "Medicine ball throws for power development"),
              "Alignment stick drills")
        lowest_score == Min(Min(sc.form_score, sc.tempo_score),
                            Min(sc.power_score, sc.accuracy_score))
        priority_level == IF lowest_score < 70 * Scale THEN "high"
                          ELSE IF lowest_score < 80 * Scale THEN "medium"
                          ELSE "low"
    IN  [strengths |-> strengths,
         areas_for_improvement    |-> areas,
         specific_recommendations |-> specific,
         practice_drills          |-> drills,
         priority_level           |-> priority_level]

\* faulty variant: high priority from 70 down, <= where < is meant
_generate_recommendations_le70(sc) ==
    LET st1 == AppendIf(sc.form_score > 85 * Scale, <<>>,
                        "Excellent form fundamentals")
        st2 == AppendIf(sc.tempo_score > 85 * Scale, st1, "Good tempo control")
        st3 == AppendIf(sc.power_score > 85 * Scale, st2,
                        "Strong power generation")
        strengths == AppendIf(sc.accuracy_score > 85 * Scale, st3,
                              "Consistent accuracy")
        lowF == sc.form_score < 80 * Scale
        lowT == sc.tempo_score < 80 * Scale
        lowP == sc.power_score < 80 * Scale
        lowA == sc.accuracy_score < 80 * Scale
        areas ==
            AppendIf(lowA,
              AppendIf(lowP,
                AppendIf(lowT,
                  AppendIf(lowF, <<>>, "Form consistency"),
                  "Tempo control"),
                "Power generation"),
              "Accuracy and consistency")
        specific ==
            AppendIf(lowA,
              AppendIf(lowP,
                AppendIf(lowT,
                  AppendIf(lowF, <<>>,
                    "Focus on maintaining proper posture throughout swing"),
                  "Work on 3:1 backswing to downswing ratio"),
                "Improve hip rotation and weight transfer"),
              "Focus on shoulder alignment and target awareness")
        drills ==
            AppendIf(lowA,
              AppendIf(lowP,
                AppendIf(lowT,
                  AppendIf(lowF, <<>>, "Mirror work for posture awareness"),
                  "Metronome practice with slow motion swings"),
                "Medicine ball throws for power development"),
              "Alignment stick drills")
        lowest_score == Min(Min(sc.form_score, sc.tempo_score),
                            Min(sc.power_score, sc.accuracy_score))
        priority_level == IF lowest_score <= 70 * Scale THEN "high"
                          ELSE IF lowest_score < 80 * Scale THEN "medium"
                          ELSE "low"
    IN  [strengths |-> IF strengths # <<>> THEN strengths
                       ELSE <<"Good overall technique">>,
         areas_for_improvement    |-> areas,
         specific_recommendations |-> specific,
         practice_drills          |-> drills,
         priority_level           |-> priority_level]

_generate_recommendations(sc) ==
    LET st1 == AppendIf(sc.form_score > 85 * Scale, <<>>,
                        "Excellent form fundamentals")
        st2 == AppendIf(sc.tempo_score > 85 * Scale, st1, "Good tempo control")
        st3 == AppendIf(sc.power_score > 85 * Scale, st2,
                        "Strong power generation")
        strengths == AppendIf(sc.accuracy_score > 85 * Scale, st3,
                              "Consistent accuracy")
        lowF == sc.form_score < 80 * Scale
        lowT == sc.tempo_score < 80 * Scale
        lowP == sc.power_score < 80 * Scale
        lowA == sc.accuracy_score < 80 * Scale
        areas ==
            AppendIf(lowA,
              AppendIf(lowP,
                AppendIf(lowT,
                  AppendIf(lowF, <<>>, "Form consistency"),
                  "Tempo control"),
                "Power generation"),
              "Accuracy and consistency")
        specific ==
            AppendIf(lowA,
              AppendIf(lowP,
                AppendIf(lowT,
                  AppendIf(lowF, <<>>,
                    "Focus on maintaining proper posture throughout swing"),
                  "Work on 3:1 backswing to downswing ratio"),
                "Improve hip rotation and weight transfer"),
              "Focus on shoulder alignment and target awareness")
        drills ==
            AppendIf(lowA,
              AppendIf(lowP,
                AppendIf(lowT,
                  AppendIf(lowF, <<>>, "Mirror work for posture awareness"),
                  "Metronome practice with slow motion swings"),
                "Medicine ball throws for power development"),
              "Alignment stick drills")
        lowest_score == Min(Min(sc.form_score, sc.tempo_score),
                            Min(sc.power_score, sc.accuracy_score))
        priority_level == IF lowest_score < 70 * Scale THEN "high"
                          ELSE IF lowest_score < 80 * Scale THEN "medium"
                          ELSE "low"
    IN  [strengths |-> IF strengths # <<>> THEN strengths
                       ELSE <<"Good overall technique">>,
         areas_for_improvement    |-> areas,
         specific_recommendations |-> specific,
         practice_drills          |-> drills,
         priority_level           |-> priority_level]

(***************************************************************************)
(* _calculate_confidence: mean of the per-frame values, times 100,         *)
(* clamped.  A visibility v in [0,1] is the integer v * Scale.             *)
(***************************************************************************)
RECURSIVE SeqSum(_)
SeqSum(s) == IF s = <<>> THEN 0 ELSE Head(s) + SeqSum(Tail(s))

\* faulty variant: the mean left on the 0-1 scale
_calculate_confidence_unscaled(cs) ==
    IF cs = <<>>
    THEN 0
    ELSE LET confidence_score == SeqSum(cs) \div Len(cs)
         IN  Max(0, Min(100 * Scale, confidence_score))

\* faulty variant: full confidence when there is nothing to average
_calculate_confidence_default(cs) ==
    IF cs = <<>>
    THEN 100 * Scale
    ELSE LET confidence_score == (SeqSum(cs) * 100) \div Len(cs)
         IN  Max(0, Min(100 * Scale, confidence_score))

_calculate_confidence(cs) ==
    IF cs = <<>>
    THEN 0
    ELSE LET confidence_score == (SeqSum(cs) * 100) \div Len(cs)
         IN  Max(0, Min(100 * Scale, confidence_score))

(***************************************************************************)
(* Inputs.  A pose frame carries the wrist position (0 or 1) of the swing: *)
(* the wrist rests, moves once at frame k, and rests again; k = n + 1 and  *)
(* k = 1 are the sequences in which it never moves.  Every landmark of a   *)
(* request has the same visibility, one of VisLevels.                      *)
(***************************************************************************)
WristTracks(n) ==
    {[i \in 1..n |-> IF i >= k THEN 1 ELSE 0] : k \in 1..(n + 1)}

VisLevels == {0, 80, 100}

\* n pose frames in which every landmark has visibility v
UniformVisibility(n, v) == [i \in 1..n |-> [k \in 1..NumLandmarks |-> v]]

\* faulty variant: per pose frame, the mean visibility of all its landmarks
ConfidenceScores_all(vis) ==
    [i \in 1..Len(vis) |-> SeqSum(vis[i]) \div Len(vis[i])]

\* pose_data["confidence_scores"]: per pose frame, the visibility of
\* landmark 0
ConfidenceScores(vis) == [i \in 1..Len(vis) |-> vis[i][1]]

\* frame_count / fps of the i-th pose frame when the first d video frames
\* carried no detectable pose
Timestamps(n, d) == [i \in 1..n |-> ((d + i - 1) * Scale) \div VideoFps]

(***************************************************************************)
(* analyze_swing, step by step.                                            *)
(***************************************************************************)
Init ==
    /\ pc = "start"
    /\ models \in ModelSets
    /\ model_predictions \in ModelPredictions(models)
    /\ video_info = NoVideoInfo
    /\ landmarks = <<>>
    /\ visibility = <<>>
    /\ frame_timestamps = <<>>
    /\ confidence_scores = <<>>
    /\ swing_phases = NoPhases
    /\ metrics = NoMetrics
    /\ scores = NoScores
    /\ recommendations = NoRecommendations
    /\ analysis_data = NoAnalysisData
    /\ error = ""
    /\ now = 0
    /\ first_scores = NoScores
    /\ ServiceIdle
    /\ AppIdle

\* _get_video_info and _extract_pose_data
ExtractPoseData ==
    /\ pc = "start"
    /\ \E n \in 0..MaxFrames, d \in 0..MaxDropped, v \in VisLevels :
         \E track \in WristTracks(n) :
            /\ video_info' = [frame_count |-> n + d, fps |-> VideoFps,
                              duration |-> ((n + d) * Scale) \div VideoFps]
            /\ landmarks' = track
            /\ visibility' = UniformVisibility(n, v)
            /\ frame_timestamps' = Timestamps(n, d)
            /\ confidence_scores' = ConfidenceScores(UniformVisibility(n, v))
    /\ pc' = "extracted"
    /\ UNCHANGED <<models, model_predictions, swing_phases, metrics, scores,
                   recommendations,
                   analysis_data, error, now, first_scores>>
    /\ UNCHANGED <<serviceVars, appVars>>

\* _analyze_swing_phases; the ValueError leaves analyze_swing through its
\* except clause, which re-raises
AnalyzeSwingPhases ==
    /\ pc = "extracted"
    /\ IF InsufficientFrames(landmarks)
       THEN /\ pc' = "failed"
            /\ error' = "Insufficient frames for swing analysis"
            /\ UNCHANGED swing_phases
       ELSE /\ pc' = "phased"
            /\ swing_phases' = _analyze_swing_phases(landmarks)
            /\ UNCHANGED error
    /\ UNCHANGED <<models, model_predictions, video_info, landmarks,
                   visibility, frame_timestamps,
                   confidence_scores, metrics, scores, recommendations,
                   analysis_data, now, first_scores>>
    /\ UNCHANGED <<serviceVars, appVars>>

\* _calculate_swing_metrics
CalculateSwingMetrics ==
    /\ pc = "phased"
    /\ IF BackswingIndexError(landmarks, swing_phases.backswing)
       THEN /\ pc' = "failed"
            /\ error' = "list index out of range"
            /\ UNCHANGED metrics
       ELSE /\ pc' = "measured"
            /\ metrics' = _calculate_swing_metrics(landmarks, frame_timestamps,
                                                   swing_phases)
            /\ UNCHANGED error
    /\ UNCHANGED <<models, model_predictions, video_info, landmarks,
                   visibility, frame_timestamps,
                   confidence_scores, swing_phases, scores, recommendations,
                   analysis_data, now, first_scores>>
    /\ UNCHANGED <<serviceVars, appVars>>

\* _generate_scores
GenerateScores ==
    /\ pc = "measured"
    /\ scores' = _generate_scores(models, metrics)
    /\ pc' = "scored"
    /\ UNCHANGED <<models, model_predictions, video_info, landmarks,
                   visibility, frame_timestamps,
                   confidence_scores, swing_phases, metrics, recommendations,
                   analysis_data, error, now, first_scores>>
    /\ UNCHANGED <<serviceVars, appVars>>

\* _generate_recommendations
GenerateRecommendations ==
    /\ pc = "scored"
    /\ recommendations' = _generate_recommendations(scores)
    /\ pc' = "recommended"
    /\ UNCHANGED <<models, model_predictions, video_info, landmarks,
                   visibility, frame_timestamps,
                   confidence_scores, swing_phases, metrics, scores,
                   analysis_data, error, now, first_scores>>
    /\ UNCHANGED <<serviceVars, appVars>>

\* SwingAnalysisData(...) and return
ReturnAnalysis ==
    /\ pc = "recommended"
    /\ analysis_data' =
          [scores           |-> scores,
           metrics          |-> metrics,
           recommendations  |-> recommendations,
           confidence_score |-> _calculate_confidence(confidence_scores),
           frame_count      |-> video_info.frame_count,
           video_duration   |-> video_info.duration,
           pose_landmarks   |-> landmarks,
           model_version    |-> "1.0.0"]
    /\ pc' = "done"
    /\ UNCHANGED <<models, model_predictions, video_info, landmarks,
                   visibility, frame_timestamps,
                   confidence_scores, swing_phases, metrics, scores,
                   recommendations, error, now, first_scores>>
    /\ UNCHANGED <<serviceVars, appVars>>

Next ==
    \/ ExtractPoseData
    \/ AnalyzeSwingPhases
    \/ CalculateSwingMetrics
    \/ GenerateScores
    \/ GenerateRecommendations
    \/ ReturnAnalysis

Spec == Init /\ [][Next]_vars

(***************************************************************************)
(* _calculate_swing_metrics on arbitrary pose data and phase ranges: the   *)
(* five ranges are any range(start, stop), related neither to each other   *)
(* nor to the number of frames.                                            *)
(***************************************************************************)
ArbitraryRanges == {Range(a, b) : a \in 0..MaxStart, b \in 0..MaxStop}

InitMetrics ==
    /\ pc = "phased"
    /\ models = [form_model |-> FALSE, tempo_model |-> FALSE,
                 power_model |-> FALSE, accuracy_model |-> FALSE]
    /\ model_predictions \in ModelPredictions(models)
    /\ video_info = NoVideoInfo
    /\ \E n \in 0..MaxStop :
          /\ landmarks = [i \in 1..n |-> 0]
          /\ visibility = UniformVisibility(n, 100)
          /\ frame_timestamps = Timestamps(n, 0)
          /\ confidence_scores = ConfidenceScores(UniformVisibility(n, 100))
    /\ swing_phases \in [PhaseNames -> ArbitraryRanges]
    /\ metrics = NoMetrics
    /\ scores = NoScores
    /\ recommendations = NoRecommendations
    /\ analysis_data = NoAnalysisData
    /\ error = ""
    /\ now = 0
    /\ first_scores = NoScores
    /\ ServiceIdle
    /\ AppIdle

NextMetrics == CalculateSwingMetrics

SpecMetrics == InitMetrics /\ [][NextMetrics]_vars

(***************************************************************************)
(* _generate_scores on arbitrary metrics within the documented bounds,     *)
(* invoked again later on the same metrics by the same analyzer.           *)
(***************************************************************************)
MetricSets ==
    [backswing_angle    : {45 * Scale},
     downswing_speed    : {0, 20 * Scale, 25 * Scale},
     follow_through     : {60 * Scale},
     hip_rotation       : {0, 70 * Scale, 75 * Scale, 80 * Scale, 180 * Scale},
     shoulder_alignment : {0, 80 * Scale, 85 * Scale, 90 * Scale, 100 * Scale},
     weight_transfer    : {0, 80 * Scale, 85 * Scale, 90 * Scale, 100 * Scale},
     tempo_ratio        : {50, 190, 200, 250, 350, 360, 400, 410, 500}]

InitScores ==
    /\ pc = "measured"
    /\ models \in ModelSets
    /\ model_predictions \in ModelPredictions(models)
    /\ video_info = NoVideoInfo
    /\ landmarks = <<>>
    /\ visibility = <<>>
    /\ frame_timestamps = <<>>
    /\ confidence_scores = <<>>
    /\ swing_phases = NoPhases
    /\ metrics \in MetricSets
    /\ scores = NoScores
    /\ recommendations = NoRecommendations
    /\ analysis_data = NoAnalysisData
    /\ error = ""
    /\ now = 0
    /\ first_scores = NoScores
    /\ ServiceIdle
    /\ AppIdle

\* a later request whose pose data yields the same metrics reaches the
\* scoring step; the wall clock has advanced meanwhile
ScoreAgain ==
    /\ pc = "scored"
    /\ now < MaxClock
    /\ now' = now + 1
    /\ first_scores' = IF first_scores = NoScores THEN scores ELSE first_scores
    /\ scores' = NoScores
    /\ pc' = "measured"
    /\ UNCHANGED <<models, model_predictions, video_info, landmarks,
                   visibility, frame_timestamps,
                   confidence_scores, swing_phases, metrics, recommendations,
                   analysis_data, error>>
    /\ UNCHANGED <<serviceVars, appVars>>

NextScores ==
    \/ GenerateScores
    \/ ScoreAgain

SpecScores == InitScores /\ [][NextScores]_vars

(***************************************************************************)
(* _calculate_confidence on arbitrary pose data: any number of frames up   *)
(* to MaxVisFrames, none included, each landmark of each frame with a      *)
(* visibility of its own.                                                  *)
(***************************************************************************)
InitConfidence ==
    /\ pc = "extracted"
    /\ models = [form_model |-> FALSE, tempo_model |-> FALSE,
                 power_model |-> FALSE, accuracy_model |-> FALSE]
    /\ model_predictions \in ModelPredictions(models)
    /\ video_info = NoVideoInfo
    /\ \E n \in 0..MaxVisFrames :
          /\ landmarks = [i \in 1..n |-> 0]
          /\ visibility \in [1..n -> [1..NumLandmarks -> VisLevels]]
          /\ frame_timestamps = Timestamps(n, 0)
    /\ confidence_scores = ConfidenceScores(visibility)
    /\ swing_phases = NoPhases
    /\ metrics = NoMetrics
    /\ scores = NoScores
    /\ recommendations = NoRecommendations
    /\ analysis_data = NoAnalysisData
    /\ error = ""
    /\ now = 0
    /\ first_scores = NoScores
    /\ ServiceIdle
    /\ AppIdle

\* confidence_score = self._calculate_confidence(pose_data)
CalculateConfidence ==
    /\ pc = "extracted"
    /\ analysis_data' =
          [analysis_data EXCEPT
              !.confidence_score = _calculate_confidence(confidence_scores)]
    /\ pc' = "confidence"
    /\ UNCHANGED <<models, model_predictions, video_info, landmarks,
                   visibility, frame_timestamps, confidence_scores,
                   swing_phases, metrics, scores, recommendations, error, now,
                   first_scores>>
    /\ UNCHANGED <<serviceVars, appVars>>

NextConfidence == CalculateConfidence

SpecConfidence == InitConfidence /\ [][NextConfidence]_vars

(***************************************************************************)
(* _generate_recommendations on arbitrary score sets: each category score  *)
(* on, just below or just above a threshold the method compares with.      *)
(***************************************************************************)
CategoryScores ==
    {0, 69 * Scale, 70 * Scale, 79 * Scale, 80 * Scale, 85 * Scale, 86 * Scale,
     100 * Scale}

ScoreSets ==
    {[form_score     |-> f,
      tempo_score    |-> t,
      power_score    |-> p,
      accuracy_score |-> a,
      overall_score  |-> OverallScore(f, t, p, a)] :
        f \in CategoryScores, t \in CategoryScores,
        p \in CategoryScores, a \in CategoryScores}

InitRecommendations ==
    /\ pc = "scored"
    /\ models = [form_model |-> FALSE, tempo_model |-> FALSE,
                 power_model |-> FALSE, accuracy_model |-> FALSE]
    /\ model_predictions \in ModelPredictions(models)
    /\ video_info = NoVideoInfo
    /\ landmarks = <<>>
    /\ visibility = <<>>
    /\ frame_timestamps = <<>>
    /\ confidence_scores = <<>>
    /\ swing_phases = NoPhases
    /\ metrics = [backswing_angle    |-> 45 * Scale,
                  downswing_speed    |-> 15 * Scale,
                  follow_through     |-> 60 * Scale,
                  hip_rotation       |-> 75 * Scale,
                  shoulder_alignment |-> 68 * Scale,
                  weight_transfer    |-> 75 * Scale,
                  tempo_ratio        |-> 280]
    /\ scores \in ScoreSets
    /\ recommendations = NoRecommendations
    /\ analysis_data = NoAnalysisData
    /\ error = ""
    /\ now = 0
    /\ first_scores = NoScores
    /\ ServiceIdle
    /\ AppIdle

NextRecommendations == GenerateRecommendations

SpecRecommendations == InitRecommendations /\ [][NextRecommendations]_vars

(***************************************************************************)
(* main.py: the /analyze-swing upload endpoint and the /analyze-swing-url  *)
(* endpoint around analyze_swing.  A request arrives, the endpoint checks  *)
(* and stores the video, the analysis runs step by step as above, and the  *)
(* endpoint answers.                                                       *)
(***************************************************************************)
MaxUploadBytes == 100 * 1024 * 1024

\* content types as <<type, subtype>>
ContentTypes ==
    {<<"video", "mp4">>, <<"video", "quicktime">>, <<"image", "png">>,
     <<"application", "octet-stream">>}

FileSizes == {0, 1, MaxUploadBytes, MaxUploadBytes + 1}

\* video_file.content_type.startswith('video/')
IsVideo(ct) == ct[1] = "video"

\* video_file.size and video_file.size > 100 * 1024 * 1024
TooLarge(size) == size # 0 /\ size > MaxUploadBytes

\* except Exception as e: raise HTTPException(status_code=500, ...); the
\* clause encloses the whole handler body, so it also catches the
\* HTTPException the body raises itself
ExceptException(raised_status) == 500

InitService ==
    /\ pc = "request"
    /\ models = [form_model |-> FALSE, tempo_model |-> FALSE,
                 power_model |-> FALSE, accuracy_model |-> FALSE]
    /\ model_predictions \in ModelPredictions(models)
    /\ video_info = NoVideoInfo
    /\ landmarks = <<>>
    /\ visibility = <<>>
    /\ frame_timestamps = <<>>
    /\ confidence_scores = <<>>
    /\ swing_phases = NoPhases
    /\ metrics = NoMetrics
    /\ scores = NoScores
    /\ recommendations = NoRecommendations
    /\ analysis_data = NoAnalysisData
    /\ error = ""
    /\ now = 0
    /\ first_scores = NoScores
    /\ ServiceIdle
    /\ AppIdle

\* /analyze-swing up to the call of analyzer.analyze_swing: the two checks,
\* then NamedTemporaryFile(delete=False) and shutil.copyfileobj
ReceiveUpload ==
    /\ pc = "request"
    /\ \E ct \in ContentTypes, sz \in FileSizes, copied \in BOOLEAN :
          /\ endpoint' = "upload"
          /\ content_type' = ct
          /\ file_size' = sz
          /\ IF ~IsVideo(ct) \/ TooLarge(sz)
             THEN \* raise HTTPException(status_code=400, ...) inside try
                  /\ http_status' = ExceptException(400)
                  /\ pc' = "responded"
                  /\ UNCHANGED <<temp_files, temp_created, analyzer_invoked>>
             ELSE IF ~copied
             THEN \* copyfileobj raises inside the with block: the file,
                  \* created with delete=False, is closed and stays
                  /\ temp_files' = temp_files \cup {"upload"}
                  /\ temp_created' = TRUE
                  /\ http_status' = ExceptException(0)
                  /\ pc' = "responded"
                  /\ UNCHANGED analyzer_invoked
             ELSE /\ temp_files' = temp_files \cup {"upload"}
                  /\ temp_created' = TRUE
                  /\ analyzer_invoked' = TRUE
                  /\ pc' = "start"
                  /\ UNCHANGED http_status
    /\ UNCHANGED <<models, model_predictions, video_info, landmarks,
                   visibility, frame_timestamps, confidence_scores,
                   swing_phases, metrics, scores, recommendations,
                   analysis_data, error, now, first_scores>>
    /\ UNCHANGED appVars

\* /analyze-swing-url and analyze_swing_from_url up to the call of
\* analyze_swing: NamedTemporaryFile(delete=False), requests.get,
\* raise_for_status and the chunk loop
ReceiveUrl ==
    /\ pc = "request"
    /\ \E downloaded \in BOOLEAN :
          /\ endpoint' = "url"
          /\ temp_files' = temp_files \cup {"download"}
          /\ temp_created' = TRUE
          /\ IF downloaded
             THEN /\ analyzer_invoked' = TRUE
                  /\ pc' = "start"
                  /\ UNCHANGED http_status
             ELSE \* the exception leaves the with block and is re-raised
                  /\ http_status' = ExceptException(0)
                  /\ pc' = "responded"
                  /\ UNCHANGED analyzer_invoked
    /\ UNCHANGED <<content_type, file_size>>
    /\ UNCHANGED <<models, model_predictions, video_info, landmarks,
                   visibility, frame_timestamps, confidence_scores,
                   swing_phases, metrics, scores, recommendations,
                   analysis_data, error, now, first_scores>>
    /\ UNCHANGED appVars

\* analyze_swing returned or raised: the finally clause unlinks temp_path,
\* then the endpoint returns SwingAnalysisResponse or its except clause
\* answers
Respond ==
    /\ pc \in {"done", "failed"}
    /\ endpoint \in {"upload", "url"}
    /\ temp_files' = temp_files \ {IF endpoint = "upload" THEN "upload"
                                   ELSE "download"}
    /\ http_status' = IF pc = "done" THEN 200 ELSE ExceptException(0)
    /\ pc' = "responded"
    /\ UNCHANGED <<endpoint, content_type, file_size, temp_created,
                   analyzer_invoked>>
    /\ UNCHANGED <<models, model_predictions, video_info, landmarks,
                   visibility, frame_timestamps, confidence_scores,
                   swing_phases, metrics, scores, recommendations,
                   analysis_data, error, now, first_scores>>
    /\ UNCHANGED appVars

NextService ==
    \/ ReceiveUpload
    \/ ReceiveUrl
    \/ ExtractPoseData
    \/ AnalyzeSwingPhases
    \/ CalculateSwingMetrics
    \/ GenerateScores
    \/ GenerateRecommendations
    \/ ReturnAnalysis
    \/ Respond

SpecService == InitService /\ [][NextService]_vars

(***************************************************************************)
(* The app service: app/services/golf_analyzer.py (GolfSwingAnalyzer with  *)
(* its four components) behind the endpoints of app/main.py.  The          *)
(* components (tempo_analyzer, form_analyzer, pose_estimator,              *)
(* video_processor) are not part of the sources: each of their calls       *)
(* either returns or raises, and what it does for a given video is part    *)
(* of the request drawn here.                                              *)
(***************************************************************************)
MaxBatch == 3       \* longest batch of requests

Components ==
    <<"tempo_analyzer", "form_analyzer", "pose_estimator", "video_processor">>

\* faulty variant: the flag set before the components are initialised
initialize_flag_first(failing) ==
    [initialized      |-> TRUE,
     components_ready |->
         {Components[i] : i \in 1..(IF failing = 0 THEN 4 ELSE failing - 1)},
     raised           |-> failing # 0]

\* initialize(): the components in order, then self.initialized = True;
\* failing = 0 when none raises, else the position of the one that raises
initialize(failing) ==
    [initialized      |-> failing = 0,
     components_ready |->
         {Components[i] : i \in 1..(IF failing = 0 THEN 4 ELSE failing - 1)},
     raised           |-> failing # 0]

AnalysisTypes == {"full", "tempo", "form"}

AppSteps ==
    <<"download_video", "get_video_info", "generate_thumbnail",
      "estimate_pose", "analyze_tempo", "analyze_form">>

StepIndex(step) == CHOOSE i \in 1..Len(AppSteps) : AppSteps[i] = step

\* what the components do with the video of a request: every step returns,
\* or one step raises, or download_video / estimate_pose returns nothing
Outcomes ==
    {[fail_step |-> "none", how |-> "ok"]}
    \cup {[fail_step |-> AppSteps[i], how |-> "raises"] : i \in 1..Len(AppSteps)}
    \cup {[fail_step |-> s, how |-> "nothing"] :
              s \in {"download_video", "estimate_pose"}}

\* TempoAnalysis.score / FormAnalysis.score, Field(ge=0, le=100)
AppScores == {0, 70 * Scale, 80 * Scale, 100 * Scale}

AnalysisRequests ==
    {[analysisType |-> t, outcome |-> o, tempo_score |-> a, form_score |-> b] :
        t \in AnalysisTypes, o \in Outcomes, a \in AppScores, b \in AppScores}

\* the requests a batch is made of
BatchRequests ==
    {r \in AnalysisRequests :
        /\ r.analysisType = "full"
        /\ r.tempo_score = 80 * Scale
        /\ r.form_score = 70 * Scale
        /\ r.outcome.fail_step \in {"none", "download_video", "estimate_pose"}
        /\ r.outcome.how # "nothing"}

\* if analysis_type in ["full", "tempo"] / ["full", "form"]
StepRuns(type, step) ==
    CASE step = "analyze_tempo" -> type \in {"full", "tempo"}
      [] step = "analyze_form"  -> type \in {"full", "form"}
      [] OTHER                  -> TRUE

FailureHappens(req) ==
    /\ req.outcome.fail_step # "none"
    /\ StepRuns(req.analysisType, req.outcome.fail_step)

\* the steps analyze_swing calls for the request, the failing one included
StepsRun(req) ==
    {AppSteps[i] : i \in
        {j \in 1..Len(AppSteps) :
            /\ StepRuns(req.analysisType, AppSteps[j])
            /\ FailureHappens(req) => j <= StepIndex(req.outcome.fail_step)}}

\* str(e) of the exception the try block of analyze_swing ends with
FailureMessage(req) ==
    IF req.outcome.how = "nothing"
    THEN IF req.outcome.fail_step = "download_video"
         THEN "Failed to download video"
         ELSE "Failed to estimate pose from video"
    ELSE "component error"

\* the except clause reads video_path and thumbnail_path; each is bound
\* once its assignment completed
VideoPathBound(req) ==
    ~(req.outcome.fail_step = "download_video" /\ req.outcome.how = "raises")

ThumbnailPathBound(req) ==
    req.outcome.fail_step \in {"estimate_pose", "analyze_tempo", "analyze_form"}

Analysis(s) == [score |-> s]

\* faulty variant: the weights of tempo and form exchanged
_calculate_overall_score_swapped(tempo, form) ==
    IF tempo # NoAnalysis /\ form # NoAnalysis
    THEN (tempo.score * 60 + form.score * 40) \div 100
    ELSE IF tempo # NoAnalysis THEN tempo.score
    ELSE IF form # NoAnalysis THEN form.score
    ELSE 0

\* (tempo_analysis.score * 0.4) + (form_analysis.score * 0.6)
_calculate_overall_score(tempo, form) ==
    IF tempo # NoAnalysis /\ form # NoAnalysis
    THEN (tempo.score * 40 + form.score * 60) \div 100
    ELSE IF tempo # NoAnalysis THEN tempo.score
    ELSE IF form # NoAnalysis THEN form.score
    ELSE 0

\* min(95, 70 + (score * 0.25)) per analysis present, their mean (floored
\* to 1/100), 50.0 when none is present
_calculate_confidence_app(tempo, form) ==
    LET q(a) == Min(95 * Scale, 70 * Scale + a.score \div 4)
        cs == (IF tempo # NoAnalysis THEN <<q(tempo)>> ELSE <<>>)
              \o (IF form # NoAnalysis THEN <<q(form)>> ELSE <<>>)
    IN  IF cs = <<>> THEN 50 * Scale ELSE SeqSum(cs) \div Len(cs)

\* the Recommendation categories, in order
_generate_recommendations_app(tempo, form) ==
    Append(
        AppendIf(form # NoAnalysis /\ form.score < 80 * Scale,
            AppendIf(tempo # NoAnalysis /\ tempo.score < 80 * Scale,
                     <<>>, "tempo"),
            "form"),
        "general")

\* the score insight of each analysis present (the insights drawn from the
\* breakdowns of the analyzers follow it in the source), never empty
_generate_key_insights(tempo, form) ==
    LET tier(a, t90, t80, t70, low) ==
            IF a.score >= 90 * Scale THEN t90
            ELSE IF a.score >= 80 * Scale THEN t80
            ELSE IF a.score >= 70 * Scale THEN t70
            ELSE low
        insights ==
            (IF tempo # NoAnalysis
             THEN <<tier(tempo,
                         "Excellent tempo consistency throughout the swing",
                         "Good tempo with room for improvement",
                         "Tempo needs work - focus on rhythm and timing",
                         "Significant tempo issues - consider professional coaching")>>
             ELSE <<>>)
            \o (IF form # NoAnalysis
                THEN <<tier(form,
                            "Outstanding form fundamentals",
                            "Solid form with minor adjustments needed",
                            "Form needs attention - focus on basics",
                            "Form requires significant improvement")>>
                ELSE <<>>)
    IN  IF insights = <<>> THEN <<"Analysis completed successfully">>
        ELSE insights

NoAnalysisResponse ==
    [success |-> FALSE, tempo |-> -1, form |-> -1, overall |-> -1,
     confidence |-> -1, keyInsights |-> <<>>, recommendations |-> <<>>,
     error |-> ""]

\* GolfSwingAnalyzer.analyze_swing of the app service: what the call does
\* when self.initialized is init
analyze_swing(init, req) ==
    IF ~init
    THEN [raised |-> TRUE, exc |-> "Analyzer not initialized",
          steps |-> {}, response |-> NoAnalysisResponse]
    ELSE IF ~FailureHappens(req)
    THEN LET tempo == IF StepRuns(req.analysisType, "analyze_tempo")
                      THEN Analysis(req.tempo_score) ELSE NoAnalysis
             form  == IF StepRuns(req.analysisType, "analyze_form")
                      THEN Analysis(req.form_score) ELSE NoAnalysis
         IN  [raised |-> FALSE, exc |-> "", steps |-> StepsRun(req),
              response |->
                  [success         |-> TRUE,
                   tempo           |-> IF tempo # NoAnalysis THEN tempo.score
                                       ELSE 0,
                   form            |-> IF form # NoAnalysis THEN form.score
                                       ELSE 0,
                   overall         |-> _calculate_overall_score(tempo, form),
                   confidence      |-> _calculate_confidence_app(tempo, form),
                   keyInsights     |-> _generate_key_insights(tempo, form),
                   recommendations |->
                       _generate_recommendations_app(tempo, form),
                   error           |-> ""]]
    ELSE IF ~VideoPathBound(req)
    THEN \* except clause: _cleanup_temp_files([video_path, thumbnail_path])
         [raised |-> TRUE, exc |-> "UnboundLocalError: video_path",
          steps |-> StepsRun(req), response |-> NoAnalysisResponse]
    ELSE IF ~ThumbnailPathBound(req)
    THEN [raised |-> TRUE, exc |-> "UnboundLocalError: thumbnail_path",
          steps |-> StepsRun(req), response |-> NoAnalysisResponse]
    ELSE [raised |-> FALSE, exc |-> "", steps |-> StepsRun(req),
          response |->
              [success |-> FALSE, tempo |-> 0, form |-> 0, overall |-> 0,
               confidence |-> 0, keyInsights |-> <<>>,
               recommendations |-> <<>>, error |-> FailureMessage(req)]]

\* app/main.py: except Exception as e: raise HTTPException(500, ...) around
\* the whole body of an endpoint, the HTTPException(401) of the key check
\* included
ExceptExceptionApp(raised_status) == 500

\* len([r for r in results if r.get("success", False)]): a dict has get, an
\* AnalysisResponse has none and the attribute access raises AttributeError
CountSuccessful(res) ==
    IF \E k \in 1..Len(res) : res[k].kind = "AnalysisResponse"
    THEN [raised |-> TRUE, value |-> 0]
    ELSE [raised |-> FALSE,
          value  |-> Cardinality({k \in 1..Len(res) : res[k].success})]

HealthValues == {"healthy", "unhealthy", "unknown"}

\* get_model_status(): the health of the three models, or the except branch
get_model_status(health, raised) ==
    IF raised THEN "unhealthy"
    ELSE IF \A i \in 1..3 : health[i] = "healthy" THEN "healthy"
    ELSE IF \E i \in 1..3 : health[i] = "unhealthy" THEN "unhealthy"
    ELSE "degraded"

CoreUnused ==
    /\ pc = "unused"
    /\ models = [form_model |-> FALSE, tempo_model |-> FALSE,
                 power_model |-> FALSE, accuracy_model |-> FALSE]
    /\ model_predictions \in ModelPredictions(models)
    /\ video_info = NoVideoInfo
    /\ landmarks = <<>>
    /\ visibility = <<>>
    /\ frame_timestamps = <<>>
    /\ confidence_scores = <<>>
    /\ swing_phases = NoPhases
    /\ metrics = NoMetrics
    /\ scores = NoScores
    /\ recommendations = NoRecommendations
    /\ analysis_data = NoAnalysisData
    /\ error = ""
    /\ now = 0
    /\ first_scores = NoScores

InitApp ==
    /\ CoreUnused
    /\ ServiceIdle
    /\ AppIdle

\* startup_event: await analyzer.initialize()
Startup ==
    /\ startup = "pending"
    /\ app_pc = "idle"
    /\ \E failing \in 0..4 :
          LET r == initialize(failing) IN
          /\ initialized' = r.initialized
          /\ components_ready' = r.components_ready
          /\ startup' = IF r.raised THEN "failed" ELSE "ok"
    /\ UNCHANGED <<app_pc, api_key_valid, batch_requests, results,
                   analyzer_calls, steps_run, app_response, app_endpoint,
                   request, tempo_analysis, form_analysis, overall_score>>
    /\ UNCHANGED <<coreVars, serviceVars>>

\* POST /analyze
AnalyzeEndpoint ==
    /\ app_pc = "idle"
    /\ \E key_ok \in BOOLEAN, req \in AnalysisRequests :
          LET r == analyze_swing(initialized, req) IN
          /\ api_key_valid' = key_ok
          /\ request' = req
          /\ IF ~key_ok
             THEN \* raise HTTPException(401, "Invalid API key") inside try
                  /\ app_response' =
                        [status |-> ExceptExceptionApp(401),
                         cause  |-> "Invalid API key",
                         body   |-> NoAnalysisResponse]
                  /\ UNCHANGED <<analyzer_calls, steps_run>>
             ELSE /\ analyzer_calls' =
                        Append(analyzer_calls,
                               [method |-> "analyze_swing", input |-> 1])
                  /\ steps_run' = steps_run \cup
                        {[step |-> s, initialized |-> initialized] :
                            s \in r.steps}
                  /\ app_response' =
                        IF r.raised
                        THEN [status |-> ExceptExceptionApp(0),
                              cause  |-> r.exc,
                              body   |-> NoAnalysisResponse]
                        ELSE [status |-> 200, cause |-> "",
                              body   |-> r.response]
    /\ app_endpoint' = "analyze"
    /\ app_pc' = "responded"
    /\ UNCHANGED <<initialized, components_ready, startup, batch_requests,
                   results, tempo_analysis, form_analysis, overall_score>>
    /\ UNCHANGED <<coreVars, serviceVars>>

\* all batches of at most MaxBatch requests
Batches ==
    UNION {[1..n -> BatchRequests] : n \in 0..MaxBatch}

\* POST /analyze/batch up to the loop
BatchBegin ==
    /\ app_pc = "idle"
    /\ \E key_ok \in BOOLEAN, reqs \in Batches :
          /\ api_key_valid' = key_ok
          /\ batch_requests' = reqs
          /\ IF ~key_ok
             THEN /\ app_response' =
                        [status |-> ExceptExceptionApp(401),
                         cause  |-> "Invalid API key",
                         body   |-> NoAnalysisResponse]
                  /\ app_pc' = "responded"
             ELSE /\ app_pc' = "batch"
                  /\ UNCHANGED app_response
    /\ app_endpoint' = "batch"
    /\ UNCHANGED <<initialized, components_ready, startup, results,
                   analyzer_calls, steps_run, request, tempo_analysis,
                   form_analysis, overall_score>>
    /\ UNCHANGED <<coreVars, serviceVars>>

\* one turn of the loop: for request in requests: try ... except ...
BatchItem ==
    /\ app_pc = "batch"
    /\ Len(results) < Len(batch_requests)
    /\ LET i == Len(results) + 1
           r == analyze_swing(initialized, batch_requests[i])
       IN  /\ analyzer_calls' =
                 Append(analyzer_calls,
                        [method |-> "analyze_swing", input |-> i])
           /\ steps_run' = steps_run \cup
                 {[step |-> s, initialized |-> initialized] : s \in r.steps}
           /\ results' =
                 Append(results,
                        IF r.raised
                        THEN [kind |-> "dict", input |-> i,
                              success |-> FALSE, error |-> r.exc]
                        ELSE [kind |-> "AnalysisResponse", input |-> i,
                              success |-> r.response.success,
                              error |-> r.response.error])
    /\ UNCHANGED <<initialized, components_ready, startup, app_pc,
                   api_key_valid, batch_requests, app_response, app_endpoint,
                   request, tempo_analysis, form_analysis, overall_score>>
    /\ UNCHANGED <<coreVars, serviceVars>>

\* after the loop: the response dict with its successful count, or the
\* except clause of the endpoint
BatchFinish ==
    /\ app_pc = "batch"
    /\ Len(results) = Len(batch_requests)
    /\ LET c == CountSuccessful(results) IN
       app_response' =
           IF c.raised
           THEN [status |-> ExceptExceptionApp(0),
                 cause  |-> "AttributeError: get",
                 body   |-> NoAnalysisResponse]
           ELSE [status |-> 200, cause |-> "",
                 body   |-> [success        |-> TRUE,
                             results        |-> results,
                             totalProcessed |-> Len(batch_requests),
                             successful     |-> c.value]]
    /\ app_pc' = "responded"
    /\ UNCHANGED <<initialized, components_ready, startup, api_key_valid,
                   batch_requests, results, analyzer_calls, steps_run,
                   app_endpoint, request, tempo_analysis, form_analysis,
                   overall_score>>
    /\ UNCHANGED <<coreVars, serviceVars>>

\* GET /models/status
ModelStatusEndpoint ==
    /\ app_pc = "idle"
    /\ \E key_ok \in BOOLEAN, raised \in BOOLEAN,
          health \in [1..3 -> HealthValues] :
          /\ api_key_valid' = key_ok
          /\ IF ~key_ok
             THEN /\ app_response' =
                        [status |-> ExceptExceptionApp(401),
                         cause  |-> "Invalid API key",
                         body   |-> NoAnalysisResponse]
                  /\ UNCHANGED analyzer_calls
             ELSE /\ analyzer_calls' =
                        Append(analyzer_calls,
                               [method |-> "get_model_status", input |-> 0])
                  /\ app_response' =
                        [status |-> 200, cause |-> "",
                         body   |-> [overallHealth |->
                                         get_model_status(health, raised)]]
    /\ app_endpoint' = "status"
    /\ app_pc' = "responded"
    /\ UNCHANGED <<initialized, components_ready, startup, batch_requests,
                   results, steps_run, request, tempo_analysis, form_analysis,
                   overall_score>>
    /\ UNCHANGED <<coreVars, serviceVars>>

NextApp ==
    \/ Startup
    \/ AnalyzeEndpoint
    \/ BatchBegin
    \/ BatchItem
    \/ BatchFinish
    \/ ModelStatusEndpoint

SpecApp == InitApp /\ [][NextApp]_vars

(***************************************************************************)
(* _calculate_overall_score of the app service on every combination of a   *)
(* present or absent tempo analysis and form analysis.                     *)
(***************************************************************************)
ScoreSteps == 10    \* sub-scores are 0, 100/ScoreSteps, 200/ScoreSteps, .., 100

OptionalAnalyses ==
    {NoAnalysis}
    \cup {Analysis((100 * Scale * k) \div ScoreSteps) : k \in 0..ScoreSteps}

InitOverall ==
    /\ CoreUnused
    /\ ServiceIdle
    /\ initialized = TRUE
    /\ components_ready = {Components[i] : i \in 1..4}
    /\ startup = "ok"
    /\ app_pc = "analysed"
    /\ api_key_valid = TRUE
    /\ batch_requests = <<>>
    /\ results = <<>>
    /\ analyzer_calls = <<>>
    /\ steps_run = {}
    /\ app_response = NoResponse
    /\ app_endpoint = "none"
    /\ request = NoRequest
    /\ tempo_analysis \in OptionalAnalyses
    /\ form_analysis \in OptionalAnalyses
    /\ overall_score = NoAnalysis.score

CalculateOverallScore ==
    /\ app_pc = "analysed"
    /\ overall_score' = _calculate_overall_score(tempo_analysis, form_analysis)
    /\ app_pc' = "overall"
    /\ UNCHANGED <<initialized, components_ready, startup, api_key_valid,
                   batch_requests, results, analyzer_calls, steps_run,
                   app_response, app_endpoint, request, tempo_analysis,
                   form_analysis>>
    /\ UNCHANGED <<coreVars, serviceVars>>

NextOverall == CalculateOverallScore

SpecOverall == InitOverall /\ [][NextOverall]_vars

(***************************************************************************)
(* Properties of phase segmentation (specification Spec).                  *)
(***************************************************************************)
Segmented == swing_phases # NoPhases

InRange(i, r) == r.start <= i /\ i < r.stop

\* C1: for a sequence of N >= 10 frames the five ranges, in the order
\* address, backswing, downswing, impact, follow_through, are contiguous
\* and non-overlapping and cover exactly [0, N): address starts at 0, each
\* range starts where the previous one stops, follow_through stops at N,
\* and every frame index lies in exactly one range.
C1_PhasesPartition ==
    Segmented =>
        /\ Len(landmarks) >= 10
        /\ swing_phases.address.start = 0
        /\ swing_phases.backswing.start = swing_phases.address.stop
        /\ swing_phases.downswing.start = swing_phases.backswing.stop
        /\ swing_phases.impact.start = swing_phases.downswing.stop
        /\ swing_phases.follow_through.start = swing_phases.impact.stop
        /\ swing_phases.follow_through.stop = Len(landmarks)
        /\ \A p \in PhaseNames : swing_phases[p].start <= swing_phases[p].stop
        /\ \A i \in 0..(Len(landmarks) - 1) :
              Cardinality({p \in PhaseNames : InRange(i, swing_phases[p])}) = 1

C1_Witness ==
    /\ pc = "phased"
    /\ Len(landmarks) = 11
    /\ swing_phases.follow_through = Range(8, 11)

\* C2: for a sequence of N >= 10 frames each of the five ranges holds at
\* least one frame index, the impact range included.
C2_AllPhasesNonEmpty ==
    Segmented => \A p \in PhaseNames : RangeLen(swing_phases[p]) >= 1

\* C3: a sequence of fewer than 10 frames fails at phase segmentation with
\* the insufficient-frames error, and nothing is computed or returned for
\* it: no phases, metrics, scores, recommendations, confidence or result.
C3_NoPartialResult ==
    (Len(landmarks) < 10 /\ pc \notin {"start", "extracted"}) =>
        /\ pc = "failed"
        /\ error = "Insufficient frames for swing analysis"
        /\ swing_phases = NoPhases
        /\ metrics = NoMetrics
        /\ scores = NoScores
        /\ recommendations = NoRecommendations
        /\ analysis_data = NoAnalysisData

C3_Witness ==
    /\ pc = "failed"
    /\ Len(landmarks) = 9
    /\ error = "Insufficient frames for swing analysis"

\* C4 as stated: when the wrist-speed signal is not degenerate the impact
\* phase begins at the frame of maximum wrist speed within the middle 60%
\* of the sequence.
C4_ImpactAtSpeedPeak ==
    (Segmented /\ ~Degenerate(landmarks)) =>
        swing_phases.impact.start = PeakFrame(landmarks)

\* C4 amended: the impact phase begins at frame floor(3N/4) and stops at
\* floor(4N/5) whatever the wrist-speed signal is, so the boundaries of a
\* sequence are those of every other sequence of the same length.
C4_ImpactAtFixedSplit ==
    Segmented =>
        LET n == Len(landmarks)
            s == swing_phases.impact.start
            e == swing_phases.impact.stop
        IN  /\ 4 * s <= 3 * n /\ 3 * n < 4 * (s + 1)
            /\ 5 * e <= 4 * n /\ 4 * n < 5 * (e + 1)

C4_Witness ==
    /\ pc = "phased"
    /\ ~Degenerate(landmarks)
    /\ PeakFrame(landmarks) # swing_phases.impact.start
    /\ PeakFrame(landmarks) = 3

(***************************************************************************)
(* Properties of metric extraction (specification SpecMetrics).            *)
(***************************************************************************)
\* C5: every SwingMetrics that _calculate_swing_metrics returns, whatever
\* the pose data and the phase ranges, has backswing_angle, follow_through
\* and hip_rotation in [0,180], shoulder_alignment and weight_transfer in
\* [0,100], tempo_ratio in [0.5,5.0] and downswing_speed >= 0.
C5_MetricsWithinBounds ==
    metrics # NoMetrics =>
        /\ 0 <= metrics.backswing_angle /\ metrics.backswing_angle <= 180 * Scale
        /\ 0 <= metrics.follow_through /\ metrics.follow_through <= 180 * Scale
        /\ 0 <= metrics.hip_rotation /\ metrics.hip_rotation <= 180 * Scale
        /\ 0 <= metrics.shoulder_alignment
        /\ metrics.shoulder_alignment <= 100 * Scale
        /\ 0 <= metrics.weight_transfer /\ metrics.weight_transfer <= 100 * Scale
        /\ 50 <= metrics.tempo_ratio /\ metrics.tempo_ratio <= 500
        /\ 0 <= metrics.downswing_speed

C5_Witness ==
    /\ pc = "measured"
    /\ RangeLen(swing_phases.backswing) < 2
    /\ RangeLen(swing_phases.downswing) = 2
    /\ Len(frame_timestamps) < 2
    /\ metrics.backswing_angle = 0
    /\ metrics.hip_rotation = 75 * Scale
    /\ metrics.tempo_ratio = 1 * Scale

(***************************************************************************)
(* Properties of the scoring step (specification SpecScores).              *)
(***************************************************************************)
Scored == pc = "scored"

InScoreBounds(x) == 0 <= x /\ x <= 100 * Scale

\* C6: for every metric set within the documented bounds the form, tempo,
\* power and accuracy scores and the overall score are each in [0,100],
\* whether or not a model is loaded for a category.
C6_ScoresWithinBounds ==
    Scored =>
        /\ InScoreBounds(scores.form_score)
        /\ InScoreBounds(scores.tempo_score)
        /\ InScoreBounds(scores.power_score)
        /\ InScoreBounds(scores.accuracy_score)
        /\ InScoreBounds(scores.overall_score)

C6_Witness ==
    /\ Scored
    /\ models.form_model /\ ~models.power_model
    /\ scores.form_score = 100 * Scale
    /\ scores.power_score = 100 * Scale
    /\ scores.accuracy_score = 100 * Scale
    /\ scores.overall_score > 95 * Scale

Bonus(cond, amount) == IF cond THEN amount ELSE 0

\* C8: with no form model the form score is
\* min(100, 70 + 10*[shoulder_alignment > 80] + 10*[hip_rotation > 70]
\*              + 10*[weight_transfer > 80]);
\* shoulder_alignment = 90, hip_rotation = 75, weight_transfer = 85 gives 100.
C8_FormScoreRule ==
    (Scored /\ ~models.form_model) =>
        /\ scores.form_score =
              Min(100 * Scale,
                  70 * Scale
                  + Bonus(metrics.shoulder_alignment > 80 * Scale, 10 * Scale)
                  + Bonus(metrics.hip_rotation > 70 * Scale, 10 * Scale)
                  + Bonus(metrics.weight_transfer > 80 * Scale, 10 * Scale))
        /\ ( /\ metrics.shoulder_alignment = 90 * Scale
             /\ metrics.hip_rotation = 75 * Scale
             /\ metrics.weight_transfer = 85 * Scale )
           => scores.form_score = 100 * Scale

C8_Witness ==
    /\ Scored
    /\ ~models.form_model
    /\ metrics.shoulder_alignment = 90 * Scale
    /\ metrics.hip_rotation = 75 * Scale
    /\ metrics.weight_transfer = 85 * Scale
    /\ scores.form_score = 100 * Scale

\* C9 as stated: with no tempo model the tempo score is 90 when tempo_ratio
\* is in [2.5, 3.5], 80 when it is in [2.0, 4.0) but outside [2.5, 3.5], and
\* 70 otherwise, so that tempo_ratio = 4.0 scores 70.
C9_TempoScoreHalfOpen ==
    (Scored /\ ~models.tempo_model) =>
        scores.tempo_score =
            IF 250 <= metrics.tempo_ratio /\ metrics.tempo_ratio <= 350
            THEN 90 * Scale
            ELSE IF 200 <= metrics.tempo_ratio /\ metrics.tempo_ratio < 400
                 THEN 80 * Scale
                 ELSE 70 * Scale

\* C9 amended: with no tempo model the tempo score is 90 when tempo_ratio
\* is in [2.5, 3.5], 80 when it is in [2.0, 4.0] but outside [2.5, 3.5], and
\* 70 otherwise; the upper bound 4.0 is inclusive, tempo_ratio = 4.0 scores 80.
C9_TempoScoreClosed ==
    (Scored /\ ~models.tempo_model) =>
        /\ scores.tempo_score =
              IF 250 <= metrics.tempo_ratio /\ metrics.tempo_ratio <= 350
              THEN 90 * Scale
              ELSE IF 200 <= metrics.tempo_ratio /\ metrics.tempo_ratio <= 400
                   THEN 80 * Scale
                   ELSE 70 * Scale
        /\ metrics.tempo_ratio = 400 => scores.tempo_score = 80 * Scale

C9_Witness ==
    /\ Scored
    /\ ~models.tempo_model
    /\ metrics.tempo_ratio = 400
    /\ scores.tempo_score = 80 * Scale

\* C10: the overall score is the arithmetic mean of the four category
\* scores, (form + tempo + power + accuracy) / 4.
C10_OverallIsMean ==
    Scored =>
        4 * scores.overall_score =
            scores.form_score + scores.tempo_score
            + scores.power_score + scores.accuracy_score

C10_Witness ==
    /\ Scored
    /\ scores.form_score = 80 * Scale
    /\ scores.tempo_score = 90 * Scale
    /\ scores.power_score = 70 * Scale
    /\ scores.accuracy_score = 70 * Scale
    /\ scores.overall_score = 7750

\* C11: when a model is loaded for a category, that category's score is
\* exactly the value the model returns for the metric set, replacing the
\* rule-table value with no blending; a category without a model keeps the
\* rule-table value.
C11_ModelReplacesRule ==
    Scored =>
        /\ scores.form_score =
              IF models.form_model THEN model_predictions.form_model
              ELSE _rule_based_form_score(metrics)
        /\ scores.tempo_score =
              IF models.tempo_model THEN model_predictions.tempo_model
              ELSE _rule_based_tempo_score(metrics)
        /\ scores.power_score =
              IF models.power_model THEN model_predictions.power_model
              ELSE _rule_based_power_score(metrics)
        /\ scores.accuracy_score =
              IF models.accuracy_model THEN model_predictions.accuracy_model
              ELSE _rule_based_accuracy_score(metrics)

(***************************************************************************)
(* Properties of the metrics and the confidence of a request               *)
(* (specification Spec).                                                   *)
(***************************************************************************)
\* time from the first frame of a phase to the first frame after it
PhaseDuration(ts, r) == ts[r.stop + 1] - ts[r.start + 1]

\* C12: tempo_ratio is (duration of the backswing phase) / (duration of the
\* downswing phase), taken from the frame timestamps and clamped to
\* [0.5, 5.0], so that a raw ratio of 6.0 is reported as 5.0.
C12_TempoFromTimestamps ==
    metrics # NoMetrics =>
        LET back == PhaseDuration(frame_timestamps, swing_phases.backswing)
            down == PhaseDuration(frame_timestamps, swing_phases.downswing)
        IN  /\ down > 0
            /\ metrics.tempo_ratio = Max(50, Min(500, (back * Scale) \div down))

\* every landmark of every frame of the request is at or below the 0.3
\* visibility threshold
LowVisibility ==
    /\ visibility # <<>>
    /\ \A i \in 1..Len(visibility) : \A k \in 1..Len(visibility[i]) :
          visibility[i][k] <= 30

Measured == pc \in {"measured", "scored", "recommended", "done"}

\* the value a metric field holds when no number was computed for it
Undefined == NoMetrics.hip_rotation

RECURSIVE AllLandmarksSum(_)
AllLandmarksSum(vis) ==
    IF vis = <<>> THEN 0 ELSE SeqSum(Head(vis)) + AllLandmarksSum(Tail(vis))

RECURSIVE FirstLandmarkSum(_)
FirstLandmarkSum(vis) ==
    IF vis = <<>> THEN 0 ELSE Head(vis)[1] + FirstLandmarkSum(Tail(vis))

ConfidenceComputed == pc = "confidence"

\* x = floor(num / den)
IsQuotient(x, num, den) == den * x <= num /\ num < den * (x + 1)

\* C14 as stated: the confidence is the mean visibility over all landmarks
\* of all frames, times 100, clamped to [0,100], so that the visibility of
\* every single landmark of every frame enters the mean.
C14_MeanOverAllLandmarks ==
    (ConfidenceComputed /\ visibility # <<>>) =>
        IsQuotient(analysis_data.confidence_score,
                   AllLandmarksSum(visibility) * 100,
                   Len(visibility) * NumLandmarks)

\* C14 amended: the confidence is the mean, over the frames, of the
\* visibility of landmark 0 of each frame, times 100, clamped to [0,100];
\* the visibility of any other landmark does not enter it.
C14_MeanOverFirstLandmark ==
    (ConfidenceComputed /\ visibility # <<>>) =>
        /\ IsQuotient(analysis_data.confidence_score,
                      FirstLandmarkSum(visibility) * 100, Len(visibility))
        /\ 0 <= analysis_data.confidence_score
        /\ analysis_data.confidence_score <= 100 * Scale

C14_Witness ==
    /\ ConfidenceComputed
    /\ Len(visibility) = 2
    /\ visibility[1][1] = 100 /\ visibility[2][1] = 80
    /\ \A i \in 1..2 : \A k \in 2..NumLandmarks : visibility[i][k] = 0
    /\ analysis_data.confidence_score = 90 * Scale

\* every landmark of every frame has visibility v
Uniform(vis, v) ==
    \A i \in 1..Len(vis) : \A k \in 1..Len(vis[i]) : vis[i][k] = v

\* C15: when every landmark of every frame has the same visibility v the
\* confidence is exactly 100 * v: all 1.0 gives 100.0, all 0.0 gives 0.0,
\* uniform 0.8 over 12 frames gives 80.0.  (Specification Spec.)
C15_UniformVisibility ==
    pc = "done" =>
        /\ \A v \in VisLevels :
              Uniform(visibility, v) => analysis_data.confidence_score = 100 * v
        /\ Uniform(visibility, 100) =>
              analysis_data.confidence_score = 100 * Scale
        /\ Uniform(visibility, 0) => analysis_data.confidence_score = 0
        /\ (Uniform(visibility, 80) /\ Len(visibility) = 12) =>
              analysis_data.confidence_score = 80 * Scale

C15_Witness ==
    /\ pc = "done"
    /\ Len(visibility) = 12
    /\ Uniform(visibility, 80)
    /\ analysis_data.confidence_score = 80 * Scale

\* C16: _calculate_confidence never fails; it returns exactly 0.0 when the
\* pose data holds no visibility value at all (no frame with detected
\* landmarks), and a value in [0,100] for any other data.
\* (Specification SpecConfidence.)
C16_ConfidenceTotal ==
    /\ error = ""
    /\ ConfidenceComputed =>
          /\ confidence_scores = <<>> => analysis_data.confidence_score = 0
          /\ 0 <= analysis_data.confidence_score
          /\ analysis_data.confidence_score <= 100 * Scale

C16_Witness ==
    /\ ConfidenceComputed
    /\ visibility = <<>>
    /\ confidence_scores = <<>>
    /\ analysis_data.confidence_score = 0


(***************************************************************************)
(* Properties of the recommendations                                       *)
(***************************************************************************)
Categories == 1..4

CategoryScore(i) ==
    CASE i = 1 -> scores.form_score
      [] i = 2 -> scores.tempo_score
      [] i = 3 -> scores.power_score
      [] i = 4 -> scores.accuracy_score

StrengthOf ==
    <<"Excellent form fundamentals", "Good tempo control",
      "Strong power generation", "Consistent accuracy">>

AreaOf ==
    <<"Form consistency", "Tempo control", "Power generation",
      "Accuracy and consistency">>

TipOf ==
    <<"Focus on maintaining proper posture throughout swing",
      "Work on 3:1 backswing to downswing ratio",
      "Improve hip rotation and weight transfer",
      "Focus on shoulder alignment and target awareness">>

DrillOf ==
    <<"Mirror work for posture awareness",
      "Metronome practice with slow motion swings",
      "Medicine ball throws for power development",
      "Alignment stick drills">>

Recommended == recommendations # NoRecommendations

Entries(seq) == {seq[k] : k \in DOMAIN seq}

\* the entries of seq are entries of table, in the order of table, no entry twice
InCategoryOrder(seq, table) ==
    /\ \A k \in DOMAIN seq : \E i \in Categories : seq[k] = table[i]
    /\ \A k, l \in DOMAIN seq : \A i, j \in Categories :
          (k < l /\ seq[k] = table[i] /\ seq[l] = table[j]) => i < j

\* C17: the strengths list holds the strength string of a category exactly
\* when the score of that category is above 85, the strings stand in the
\* order form, tempo, power, accuracy, and a score of exactly 85 gives no
\* strength.
C17_StrengthsAbove85 ==
    Recommended =>
        /\ \A i \in Categories :
              (StrengthOf[i] \in Entries(recommendations.strengths))
                  <=> (CategoryScore(i) > 85 * Scale)
        /\ (\E i \in Categories : CategoryScore(i) > 85 * Scale) =>
              InCategoryOrder(recommendations.strengths, StrengthOf)
        /\ \A i \in Categories :
              (CategoryScore(i) = 85 * Scale) =>
                  StrengthOf[i] \notin Entries(recommendations.strengths)

C17_Witness ==
    /\ Recommended
    /\ scores.form_score = 85 * Scale
    /\ scores.tempo_score = 86 * Scale
    /\ scores.power_score = 80 * Scale
    /\ scores.accuracy_score = 100 * Scale
    /\ recommendations.strengths =
          <<"Good tempo control", "Consistent accuracy">>

IsLow(i) == CategoryScore(i) < 80 * Scale

LowCategories == SelectSeq(<<1, 2, 3, 4>>, IsLow)

\* C18: areas_for_improvement, specific_recommendations and practice_drills
\* have one length, the number of categories scoring below 80; their i-th
\* entries are those of one category, the i-th category scoring below 80 in
\* the order form, tempo, power, accuracy; a score from 80 to 85 adds
\* nothing to any list.
C18_ImprovementListsAligned ==
    Recommended =>
        /\ Len(recommendations.areas_for_improvement) =
              Cardinality({i \in Categories : CategoryScore(i) < 80 * Scale})
        /\ Len(recommendations.specific_recommendations) =
              Len(recommendations.areas_for_improvement)
        /\ Len(recommendations.practice_drills) =
              Len(recommendations.areas_for_improvement)
        /\ \A k \in 1..Len(LowCategories) :
              /\ recommendations.areas_for_improvement[k] =
                    AreaOf[LowCategories[k]]
              /\ recommendations.specific_recommendations[k] =
                    TipOf[LowCategories[k]]
              /\ recommendations.practice_drills[k] =
                    DrillOf[LowCategories[k]]
        /\ \A i \in Categories :
              (CategoryScore(i) >= 80 * Scale /\ CategoryScore(i) <= 85 * Scale)
                  => /\ StrengthOf[i] \notin Entries(recommendations.strengths)
                     /\ AreaOf[i] \notin
                           Entries(recommendations.areas_for_improvement)
                     /\ TipOf[i] \notin
                           Entries(recommendations.specific_recommendations)
                     /\ DrillOf[i] \notin
                           Entries(recommendations.practice_drills)

C18_Witness ==
    /\ Recommended
    /\ scores.form_score = 79 * Scale
    /\ scores.tempo_score = 70 * Scale
    /\ scores.power_score = 85 * Scale
    /\ scores.accuracy_score = 69 * Scale
    /\ recommendations.areas_for_improvement =
          <<"Form consistency", "Tempo control", "Accuracy and consistency">>
    /\ recommendations.practice_drills =
          <<"Mirror work for posture awareness",
            "Metronome practice with slow motion swings",
            "Alignment stick drills">>

\* C19: the returned strengths list is never empty; it is the single entry
\* "Good overall technique" exactly when no category scores above 85, and
\* holds only category strength strings otherwise.
C19_StrengthsNeverEmpty ==
    Recommended =>
        /\ recommendations.strengths # <<>>
        /\ (recommendations.strengths = <<"Good overall technique">>)
              <=> (\A i \in Categories : CategoryScore(i) <= 85 * Scale)
        /\ (\E i \in Categories : CategoryScore(i) > 85 * Scale) =>
              Entries(recommendations.strengths) \subseteq Entries(StrengthOf)

C19_Witness ==
    /\ Recommended
    /\ scores.form_score = 85 * Scale
    /\ scores.tempo_score = 80 * Scale
    /\ scores.power_score = 79 * Scale
    /\ scores.accuracy_score = 0
    /\ recommendations.strengths = <<"Good overall technique">>

LowestCategoryScore ==
    CHOOSE x \in {CategoryScore(i) : i \in Categories} :
        \A i \in Categories : x <= CategoryScore(i)

\* C20: priority_level is "high" when the least of the four category scores
\* is below 70, "medium" when it is at least 70 and below 80, "low" when it
\* is at least 80; priority_level is "low" exactly when
\* areas_for_improvement is empty.
C20_PriorityFromLowest ==
    Recommended =>
        /\ (LowestCategoryScore < 70 * Scale) =>
              recommendations.priority_level = "high"
        /\ (LowestCategoryScore >= 70 * Scale
              /\ LowestCategoryScore < 80 * Scale) =>
              recommendations.priority_level = "medium"
        /\ (LowestCategoryScore >= 80 * Scale) =>
              recommendations.priority_level = "low"
        /\ (recommendations.priority_level = "low")
              <=> (recommendations.areas_for_improvement = <<>>)

C20_Witness ==
    /\ Recommended
    /\ scores.form_score = 70 * Scale
    /\ scores.tempo_score = 86 * Scale
    /\ scores.power_score = 80 * Scale
    /\ scores.accuracy_score = 100 * Scale
    /\ recommendations.priority_level = "medium"
    /\ recommendations.areas_for_improvement = <<"Form consistency">>

(***************************************************************************)
(* Properties of the returned analysis                                     *)
(***************************************************************************)
Returned == pc = "done"

\* C23 as stated: the frame_count of the returned SwingAnalysisData is the
\* number of frames analysed, the length of pose_landmarks, also when pose
\* detection failed on some video frames.
C23_FrameCountIsFramesAnalysed ==
    Returned =>
        /\ analysis_data.frame_count = Len(analysis_data.pose_landmarks)
        /\ analysis_data.frame_count = Len(landmarks)

PlaceholderMetrics ==
    [backswing_angle    |-> 45 * Scale,
     downswing_speed    |-> 15 * Scale,
     follow_through     |-> 60 * Scale,
     hip_rotation       |-> 75 * Scale,
     shoulder_alignment |-> 68 * Scale,
     weight_transfer    |-> 75 * Scale,
     tempo_ratio        |-> 280]

PlaceholderScores ==
    [form_score     |-> 80 * Scale,
     tempo_score    |-> 90 * Scale,
     power_score    |-> 70 * Scale,
     accuracy_score |-> 70 * Scale,
     overall_score  |-> 7750]

Responded == pc = "responded"

\* C26 as stated: /analyze-swing answers with HTTP 400 when the content
\* type of the upload is not video/* or its size exceeds 100 MB, and then
\* no temporary file is created and the analyzer is not invoked.
C26_RejectedUploadAnswers400 ==
    (/\ Responded
     /\ endpoint = "upload"
     /\ \/ content_type[1] # "video"
        \/ file_size > 100 * 1024 * 1024)
        => /\ http_status = 400
           /\ ~temp_created
           /\ ~analyzer_invoked

\* C27 as stated: once the request has finished, on every exit path, no
\* temporary video file created for it exists any more.
C27_NoTempFileAfterRequest ==
    Responded => temp_files = {}

(***************************************************************************)
(* Properties of the app service                                           *)
(***************************************************************************)
AppResponded == app_pc = "responded"

BatchServed == app_endpoint = "batch" /\ api_key_valid

\* the loop of analyze_batch: every input analysed once, in input order,
\* each with its own slot, a raised failure as a dict in that slot
BatchLoopInOrder ==
    BatchServed =>
        /\ Len(results) <= Len(batch_requests)
        /\ analyzer_calls =
              [k \in 1..Len(results) |->
                  [method |-> "analyze_swing", input |-> k]]
        /\ \A k \in 1..Len(results) :
              /\ results[k].input = k
              /\ (~initialized \/ FailureHappens(batch_requests[k]))
                    => (~results[k].success /\ results[k].error # "")
        /\ AppResponded => Len(results) = Len(batch_requests)

BatchResponseCarriesResults ==
    (BatchServed /\ AppResponded) =>
        /\ app_response.status = 200
        /\ Len(app_response.body.results) = Len(batch_requests)
        /\ \A k \in 1..Len(batch_requests) :
              app_response.body.results[k].input = k

\* C21 as stated: in a batch of n requests every request is analysed
\* exactly once in input order, a failure of one item is captured in that
\* item's own result slot and never prevents later items from being
\* analysed, and the result list of the response has exactly n entries,
\* the i-th belonging to the i-th input.
C21_BatchResultsInInputOrder ==
    /\ BatchLoopInOrder
    /\ BatchResponseCarriesResults

\* C22 as stated: the batch response reports totalProcessed = n and
\* successful = the number of result entries that are successful analyses
\* (3 results and successful = 2 when only item 2 of 3 fails), and the
\* batch endpoint itself does not fail.
C22_BatchCountsSuccessful ==
    (BatchServed /\ AppResponded) =>
        /\ app_response.status = 200
        /\ app_response.body.totalProcessed = Len(batch_requests)
        /\ app_response.body.successful =
              Cardinality({k \in 1..Len(results) : results[k].success})

\* C24 as stated: if a step of analyze_swing after the initialised check
\* fails (the download raising or returning nothing, metadata, thumbnail,
\* pose estimation, tempo or form analysis), analyze_swing does not raise
\* but returns an AnalysisResponse with success = false, overall = 0,
\* confidence = 0, empty keyInsights and recommendations, and error set to
\* the failure message.
C24_FailureReturnsErrorResponse ==
    (/\ AppResponded
     /\ app_endpoint = "analyze"
     /\ api_key_valid
     /\ initialized
     /\ FailureHappens(request))
        => /\ app_response.status = 200
           /\ app_response.body.success = FALSE
           /\ app_response.body.overall = 0
           /\ app_response.body.confidence = 0
           /\ app_response.body.keyInsights = <<>>
           /\ app_response.body.recommendations = <<>>
           /\ app_response.body.error = FailureMessage(request)

\* C25 as stated: a request to /analyze, /analyze/batch or /models/status
\* whose API key fails verification is answered with HTTP 401 "Invalid API
\* key", and the analyzer is never invoked for it.
C25_InvalidKeyAnswers401 ==
    (AppResponded /\ ~api_key_valid) =>
        /\ app_response.status = 401
        /\ app_response.cause = "Invalid API key"
        /\ analyzer_calls = <<>>
        /\ steps_run = {}

\* C28: no analysis step runs while the analyzer is uninitialised:
\* analyze_swing raises RuntimeError("Analyzer not initialized") unless
\* initialize() has completed; initialized is true only after all four
\* components initialised without error, and a failed initialize() leaves
\* it false.
C28_NoAnalysisUninitialised ==
    /\ \A s \in steps_run : s.initialized
    /\ initialized =>
          (startup = "ok" /\ components_ready = {Components[i] : i \in 1..4})
    /\ (startup = "failed") => ~initialized
    /\ (startup # "ok") => steps_run = {}
    /\ (/\ startup # "ok"
        /\ AppResponded
        /\ app_endpoint = "analyze"
        /\ api_key_valid)
          => /\ app_response.status # 200
             /\ app_response.cause = "Analyzer not initialized"
    /\ (startup # "ok" /\ BatchServed) =>
          \A k \in 1..Len(results) :
              /\ results[k].kind = "dict"
              /\ results[k].error = "Analyzer not initialized"

C28_Witness ==
    /\ startup = "failed"
    /\ Cardinality(components_ready) = 3
    /\ AppResponded
    /\ app_endpoint = "analyze"
    /\ api_key_valid
    /\ request.outcome.fail_step = "none"
    /\ app_response.cause = "Analyzer not initialized"
    /\ steps_run = {}

\* C30: _calculate_overall_score returns 0.4 * tempo.score + 0.6 *
\* form.score when both analyses are present, the score of the one present
\* when only one is, and 0.0 when neither is; for sub-scores in [0, 100]
\* the result is in [0, 100].
C30_OverallScoreBlend ==
    (app_pc = "overall") =>
        /\ (tempo_analysis # NoAnalysis /\ form_analysis # NoAnalysis) =>
              IsQuotient(overall_score,
                         40 * tempo_analysis.score + 60 * form_analysis.score,
                         100)
        /\ (tempo_analysis # NoAnalysis /\ form_analysis = NoAnalysis) =>
              overall_score = tempo_analysis.score
        /\ (tempo_analysis = NoAnalysis /\ form_analysis # NoAnalysis) =>
              overall_score = form_analysis.score
        /\ (tempo_analysis = NoAnalysis /\ form_analysis = NoAnalysis) =>
              overall_score = 0
        /\ 0 <= overall_score
        /\ overall_score <= 100 * Scale

C30_Witness ==
    /\ app_pc = "overall"
    /\ tempo_analysis = [score |-> 0]
    /\ form_analysis = [score |-> 100 * Scale]
    /\ overall_score = 60 * Scale
=============================================================================
